---- MODULE Spec2Model ----
(***************************************************************************)
(* delta: a streaming post-processor for git diff output (src/main.rs).    *)
(* The model follows main(), delta() and parse_args().  Text is modelled   *)
(* as sequences of one-character strings, so that prefix tests, ANSI       *)
(* stripping and extension parsing are computed and not assumed.           *)
(***************************************************************************)
EXTENDS Integers, Sequences, FiniteSets, TLC

VARIABLES
    pc,            \* position of the process: "parse_args", "loop", "exited"
    opt,           \* struct Opt (light, dark, plus_color, minus_color, theme)
    paint_config,  \* paint::Config built by parse_args (no theme before)
    state,         \* enum State: current section
    syntax,        \* Option<&SyntaxReference>: "none" or a grammar name
    output,        \* the reusable String buffer handed to paint_line
    did_emit_line, \* bool of the loop body
    input,         \* raw lines delivered so far by stdin.lock().lines()
    stdout,        \* lines written so far with writeln!(stdout, ..)
    stderr,        \* messages written with eprintln!
    result,        \* what delta() returned: "none", "Ok", or the io::ErrorKind of Err
    failed_op,     \* which call raised the error: "none", "read", "write"
    exit_code,     \* process exit status, meaningful once pc = "exited"
    lookups        \* per line read, the arguments find_syntax_by_extension was called with

vars == <<pc, opt, paint_config, state, syntax, output, did_emit_line,
          input, stdout, stderr, result, failed_op, exit_code, lookups>>

----------------------------------------------------------------------------
(* Bounds *)

MaxLines == 4      \* longest input stream explored
ArgsMaxLines == 3  \* longest input stream explored with the full set of command lines
LiveMaxLines == 3  \* longest input stream explored under fairness

----------------------------------------------------------------------------
(* Text *)

None == "none"
ESC == "ESC"       \* the escape character \x1b

DiffPrefix == <<"d", "i", "f", "f", " ", "-", "-">>
CommitPrefix == <<"c", "o", "m", "m", "i", "t">>
HunkPrefix == <<"@", "@">>

DiffRs == <<"d", "i", "f", "f", " ", "-", "-", "g", "i", "t", " ", "a", "/", "x", ".", "r", "s", " ", "b", "/", "x", ".", "r", "s">>
AnsiDiffPy == <<ESC, "[", "1", "m", "d", "i", "f", "f", " ", "-", "-", "g", "i", "t", " ", "a", "/", "y", ".", "p", "y", " ", "b", "/", "y", ".", "p", "y", ESC, "[", "m">>
DiffUnk == <<"d", "i", "f", "f", " ", "-", "-", "g", "i", "t", " ", "a", "/", "x", ".", "z", "z", " ", "b", "/", "x", ".", "z", "z">>
DiffBad == <<"d", "i", "f", "f", " ", "-", "-", "g", "i", "t", " ", "g", "a", "r", "b", "a", "g", "e">>
CommitLn == <<"c", "o", "m", "m", "i", "t", " ", "1", "a">>
HunkHdr == <<"@", "@", " ", "-", "1", " ", "+", "1", " ", "@", "@">>
Minus == <<"-", "l", "e", "t", " ", "x", ";">>
AnsiMinus == <<ESC, "[", "3", "1", "m", "-", "l", "e", "t", " ", "x", ";", ESC, "[", "m">>
Meta == <<"i", "n", "d", "e", "x", " ", "1", ".", ".", "2">>

\* the raw lines stdin can deliver
Lines == {DiffRs, AnsiDiffPy, DiffUnk, DiffBad, CommitLn, HunkHdr, Minus, AnsiMinus, Meta}

\* str::starts_with
starts_with(s, prefix) ==
    /\ Len(s) >= Len(prefix)
    /\ SubSeq(s, 1, Len(prefix)) = prefix

Digits == {"0", "1", "2", "3", "4", "5", "6", "7", "8", "9"}
CsiIntro == {"[", "(", ")", "#", ";", "?"}
CsiParam == Digits \cup {";"}
CsiFinal == {"m", "K", "H", "J", "A", "B", "C", "D"}

\* first index >= i of s whose character is not in set (Len(s)+1 if none)
RECURSIVE SkipWhile(_, _, _)
SkipWhile(s, i, set) ==
    IF i <= Len(s) /\ s[i] \in set THEN SkipWhile(s, i + 1, set) ELSE i

\* index of the final byte of the escape sequence starting at s[i] = ESC,
\* or 0 when the characters after ESC do not form one
EscapeEnd(s, i) ==
    LET j == SkipWhile(s, SkipWhile(s, i + 1, CsiIntro), CsiParam)
    IN  IF j <= Len(s) /\ s[j] \in CsiFinal THEN j ELSE 0

\* least element of a non-empty set of indices
Least(idx) == CHOOSE k \in idx : \A j \in idx : k <= j

FirstOr(idx, default) == IF idx = {} THEN default ELSE Least(idx)

\* first index >= i of s that holds character c (Len(s)+1 if none)
IndexFrom(s, c, i) == FirstOr({k \in i..Len(s) : s[k] = c}, Len(s) + 1)

\* s[i..] without its escape sequences, e being the first ESC at or after i
\* and end the last index of the sequence that starts there (0 if none does)
RECURSIVE StripFrom(_, _)
StripAt(s, i, e, end) ==
    IF e > Len(s) THEN SubSeq(s, i, Len(s))
    ELSE IF end # 0 THEN SubSeq(s, i, e - 1) \o StripFrom(s, end + 1)
    ELSE SubSeq(s, i, e) \o StripFrom(s, e + 1)

StripEsc(s, i, e) == StripAt(s, i, e, IF e > Len(s) THEN 0 ELSE EscapeEnd(s, e))

StripFrom(s, i) == StripEsc(s, i, IndexFrom(s, ESC, i))

\* variant: the line is classified and painted as it was read
strip_ansi_codes_keeps_all(s) == s

\* console::strip_ansi_codes
strip_ansi_codes(s) == StripFrom(s, 1)

----------------------------------------------------------------------------
(* Extension Resolver and Syntax Lookup *)

\* the words of s[i..], split at single spaces (str::split(" ")), j being
\* the first space at or after i
RECURSIVE Split(_, _)
SplitAt(s, i, j) ==
    IF j > Len(s) THEN <<SubSeq(s, i, Len(s))>>
    ELSE <<SubSeq(s, i, j - 1)>> \o Split(s, j + 1)

Split(s, i) == SplitAt(s, i, IndexFrom(s, " ", i))

\* greatest element of a set of indices, 0 if it is empty
LastOr0(idx) == IF idx = {} THEN 0 ELSE CHOOSE k \in idx : \A j \in idx : j <= k

\* index of the last occurrence of c in s, 0 if none
LastIndexOf(s, c) == LastOr0({k \in 1..Len(s) : s[k] = c})

\* the suffix of name after its last ".", which is at index dot (0: no ".")
suffix_after(name, dot) ==
    IF dot = 0 \/ dot = Len(name) THEN None
    ELSE SubSeq(name, dot + 1, Len(name))

file_extension(name) == suffix_after(name, LastIndexOf(name, "."))

\* the suffix after the last "." of the file name of path, or None
get_extension(path) ==
    file_extension(SubSeq(path, LastIndexOf(path, "/") + 1, Len(path)))

\* the extension of the new path when the header has the two-path shape
extension_of_words(words) ==
    IF /\ Len(words) = 4
       /\ starts_with(words[3], <<"a", "/">>)
       /\ starts_with(words[4], <<"b", "/">>)
    THEN get_extension(words[4])
    ELSE None

\* parse_diff::get_file_extension_from_diff_line: "diff --<mode> a/<path> b/<path>"
get_file_extension_from_diff_line(line) == extension_of_words(Split(line, 1))

\* SyntaxSet::find_syntax_by_extension over the grammar catalog
find_syntax_by_extension(extension) ==
    IF extension = <<"r", "s">> THEN "Rust"
    ELSE IF extension = <<"p", "y">> THEN "Python"
    ELSE None

Syntaxes == {"Rust", "Python"}

----------------------------------------------------------------------------
(* Line Painter *)

\* foreground colour code the highlighter gives the text under a grammar and theme
FgCode(syn, config) ==
    <<IF config.theme_name = "base16-mocha.dark" THEN "9" ELSE "3",
      IF syn = "Rust" THEN "1" ELSE "2">>

\* overlay background chosen from the leading diff marker: the mode default,
\* or the override of the configuration when it holds one
BgCode(line, config) ==
    IF Len(line) > 0 /\ line[1] = "+"
    THEN IF config.plus_color = <<>> THEN <<";", "4", "2">> ELSE <<";", "4", "8">>
    ELSE IF Len(line) > 0 /\ line[1] = "-"
    THEN IF config.minus_color = <<>> THEN <<";", "4", "1">> ELSE <<";", "4", "8">>
    ELSE <<>>

\* paint::paint_line(line, syntax, &config, &mut output): the new buffer contents
paint_line(line, syn, config, buf) ==
    buf \o <<ESC, "[">> \o FgCode(syn, config) \o BgCode(line, config) \o <<"m">>
        \o line \o <<ESC, "[", "0", "m">>

----------------------------------------------------------------------------
(* Options *)

\* ThemeSet::load_defaults()
Themes == {"InspiredGitHub", "Solarized (dark)", "Solarized (light)",
           "base16-eighties.dark", "base16-mocha.dark", "base16-ocean.dark",
           "base16-ocean.light"}

\* colour arguments: "#d0ffd0", "#fdd", and two that are no colours
ColorLong == <<"#", "d", "0", "f", "f", "d", "0">>
ColorShort == <<"#", "f", "d", "d">>
ColorWord == <<"r", "e", "d">>
ColorBadDigit == <<"#", "1", "2", "3", "4", "5", "g">>

\* Option of the colour arguments and of the parsed colours: no value, or one
Absent == <<>>
Some(x) == <<x>>

\* struct Opt with the given fields
MakeOpt(light, dark, plus_color, minus_color, theme) ==
    [light |-> light, dark |-> dark, plus_color |-> plus_color,
     minus_color |-> minus_color, theme |-> theme]

\* command lines explored together with the input streams: Opt::from_args()
Opts ==
    { MakeOpt(FALSE, FALSE, Absent, Absent, None),
      MakeOpt(TRUE,  FALSE, Absent, Absent, None),
      MakeOpt(FALSE, TRUE,  Absent, Absent, None),
      MakeOpt(TRUE,  TRUE,  Absent, Absent, None),
      MakeOpt(TRUE,  TRUE,  Absent, Absent, "nosuch"),
      MakeOpt(FALSE, TRUE,  Absent, Absent, "Solarized (dark)"),
      MakeOpt(FALSE, FALSE, Absent, Absent, "nosuch") }

\* every combination of the options, explored with shorter input streams
ArgsOpts ==
    { MakeOpt(light, dark, plus_color, minus_color, theme) :
        light \in BOOLEAN, dark \in BOOLEAN,
        plus_color \in {Absent, Some(ColorLong), Some(ColorWord)},
        minus_color \in {Absent, Some(ColorShort), Some(ColorBadDigit)},
        theme \in {None, "Solarized (dark)", "nosuch"} }

\* value of a hexadecimal digit (char::to_digit(16))
HexValue ==
    [c \in {"0", "1", "2", "3", "4", "5", "6", "7", "8", "9",
            "a", "b", "c", "d", "e", "f"} |->
        CASE c = "0" -> 0 [] c = "1" -> 1 [] c = "2" -> 2 [] c = "3" -> 3
          [] c = "4" -> 4 [] c = "5" -> 5 [] c = "6" -> 6 [] c = "7" -> 7
          [] c = "8" -> 8 [] c = "9" -> 9 [] c = "a" -> 10 [] c = "b" -> 11
          [] c = "c" -> 12 [] c = "d" -> 13 [] c = "e" -> 14 [] c = "f" -> 15]

\* the Color <<r, g, b, a>> of a list of hexadecimal digits, if its length is right
color_of_digits(d) ==
    IF Len(d) = 3 THEN Some(<<HexValue[d[1]], HexValue[d[2]], HexValue[d[3]], 255>>)
    ELSE IF Len(d) = 6
    THEN Some(<<16 * HexValue[d[1]] + HexValue[d[2]], 16 * HexValue[d[3]] + HexValue[d[4]],
                16 * HexValue[d[5]] + HexValue[d[6]], 255>>)
    ELSE IF Len(d) = 8
    THEN Some(<<16 * HexValue[d[1]] + HexValue[d[2]], 16 * HexValue[d[3]] + HexValue[d[4]],
                16 * HexValue[d[5]] + HexValue[d[6]], 16 * HexValue[d[7]] + HexValue[d[8]]>>)
    ELSE Absent

\* Color::from_str(s).ok(): the Color, or nothing when s is no "#" followed by
\* 3, 6 or 8 hexadecimal digits
color_from_str(s) ==
    IF Len(s) = 0 \/ s[1] # "#" THEN Absent
    ELSE IF \E i \in 2..Len(s) : s[i] \notin DOMAIN HexValue THEN Absent
    ELSE color_of_digits(SubSeq(s, 2, Len(s)))

\* variant: an argument that is no colour is kept as the override
parse_color_keeps_text(arg) == arg

\* opt.plus_color.as_ref().and_then(|s| Color::from_str(s).ok())
parse_color(arg) == IF arg = Absent THEN Absent ELSE color_from_str(arg[1])

----------------------------------------------------------------------------
(* parse_args *)

\* the configuration slot before paint::get_config has run
NoConfig == [theme_name |-> None, plus_color |-> Absent, minus_color |-> Absent]

\* paint::get_config(theme, theme_name, plus_color, minus_color, width)
get_config(theme_name, plus_color, minus_color) ==
    [theme_name |-> theme_name, plus_color |-> plus_color, minus_color |-> minus_color]

\* lines 144-156: the colours are parsed and the configuration is built
config_for(o, theme_name) ==
    get_config(theme_name, parse_color(o.plus_color), parse_color(o.minus_color))

\* variant: the test that --light and --dark exclude each other is missing
parse_args_no_exclusion(o) ==
    IF o.theme # None
    THEN IF o.theme \notin Themes
         THEN [exit |-> TRUE, msg |-> "invalid_theme", opt |-> o, config |-> NoConfig]
         ELSE [exit |-> FALSE, msg |-> None, opt |-> o,
               config |-> config_for(o, o.theme)]
    ELSE LET o2 == IF ~(o.light \/ o.dark) THEN [o EXCEPT !.light = TRUE] ELSE o
         IN  [exit |-> FALSE, msg |-> None, opt |-> o2,
              config |-> config_for(o2, IF o2.light THEN "InspiredGitHub"
                                       ELSE "base16-mocha.dark")]

\* variant: a light or dark flag selects its default theme even when a
\* theme is named
parse_args_flags_first(o) ==
    IF o.light /\ o.dark
    THEN [exit |-> TRUE, msg |-> "light_dark", opt |-> o, config |-> NoConfig]
    ELSE IF o.theme # None /\ o.theme \notin Themes
    THEN [exit |-> TRUE, msg |-> "invalid_theme", opt |-> o, config |-> NoConfig]
    ELSE IF o.theme # None /\ ~(o.light \/ o.dark)
    THEN [exit |-> FALSE, msg |-> None, opt |-> o, config |-> config_for(o, o.theme)]
    ELSE LET o2 == IF ~(o.light \/ o.dark) THEN [o EXCEPT !.light = TRUE] ELSE o
         IN  [exit |-> FALSE, msg |-> None, opt |-> o2,
              config |-> config_for(o2, IF o2.light THEN "InspiredGitHub"
                                       ELSE "base16-mocha.dark")]

\* parse_args(&theme_set, &mut opt): either the process exits with a message,
\* or opt is updated and the paint::Config is returned
parse_args(o) ==
    IF o.light /\ o.dark
    THEN [exit |-> TRUE, msg |-> "light_dark", opt |-> o, config |-> NoConfig]
    ELSE IF o.theme # None
    THEN IF o.theme \notin Themes
         THEN [exit |-> TRUE, msg |-> "invalid_theme", opt |-> o, config |-> NoConfig]
         ELSE [exit |-> FALSE, msg |-> None, opt |-> o,
               config |-> config_for(o, o.theme)]
    ELSE LET o2 == IF ~(o.light \/ o.dark) THEN [o EXCEPT !.light = TRUE] ELSE o
         IN  [exit |-> FALSE, msg |-> None, opt |-> o2,
              config |-> config_for(o2, IF o2.light THEN "InspiredGitHub"
                                       ELSE "base16-mocha.dark")]

----------------------------------------------------------------------------
(* The loop body of delta() *)

\* variant: a line with no trigger prefix resets the section
NewState_reset(st, line) ==
    IF starts_with(line, DiffPrefix) THEN "DiffMeta"
    ELSE IF starts_with(line, CommitPrefix) THEN "Commit"
    ELSE IF starts_with(line, HunkPrefix) THEN "DiffHunk"
    ELSE "Unknown"

\* variant: "@@" opens a hunk only right after the metadata of a file
NewState_hunk_after_meta(st, line) ==
    IF starts_with(line, DiffPrefix) THEN "DiffMeta"
    ELSE IF starts_with(line, CommitPrefix) THEN "Commit"
    ELSE IF starts_with(line, HunkPrefix) /\ st = "DiffMeta" THEN "DiffHunk"
    ELSE st

\* the section after the if / else-if chain
NewState(st, line) ==
    IF starts_with(line, DiffPrefix) THEN "DiffMeta"
    ELSE IF starts_with(line, CommitPrefix) THEN "Commit"
    ELSE IF starts_with(line, HunkPrefix) THEN "DiffHunk"
    ELSE st

\* variant: the "commit" arm also clears the handle
NewSyntax_commit_clears(syn, line) ==
    IF starts_with(line, DiffPrefix)
    THEN LET extension == get_file_extension_from_diff_line(line)
         IN  IF extension # None THEN find_syntax_by_extension(extension) ELSE None
    ELSE IF starts_with(line, CommitPrefix) THEN None
    ELSE syn

\* variant: a header that resolves to nothing keeps the previous handle
NewSyntax_keep_on_none(syn, line) ==
    IF starts_with(line, DiffPrefix)
    THEN LET extension == get_file_extension_from_diff_line(line)
             found == IF extension # None THEN find_syntax_by_extension(extension)
                      ELSE None
         IN  IF found # None THEN found ELSE syn
    ELSE syn

\* the grammar handle after the if / else-if chain
NewSyntax(syn, line) ==
    IF starts_with(line, DiffPrefix)
    THEN LET extension == get_file_extension_from_diff_line(line)
         IN  IF extension # None THEN find_syntax_by_extension(extension) ELSE None
    ELSE syn

\* variant: the lookup is made for every header, with an empty extension
\* when the resolver found none
Lookups_every_header(line) ==
    IF starts_with(line, DiffPrefix)
    THEN LET extension == get_file_extension_from_diff_line(line)
         IN  IF extension # None THEN <<extension>> ELSE << <<>> >>
    ELSE <<>>

\* the arguments of the calls of find_syntax_by_extension made for one line
Lookups(line) ==
    IF starts_with(line, DiffPrefix)
    THEN LET extension == get_file_extension_from_diff_line(line)
         IN  IF extension # None THEN <<extension>> ELSE <<>>
    ELSE <<>>

\* variant: the arm is taken whatever the Option holds
PaintBranch_any_syntax(st, syn, line) ==
    /\ ~starts_with(line, DiffPrefix)
    /\ ~starts_with(line, CommitPrefix)
    /\ ~starts_with(line, HunkPrefix)
    /\ st = "DiffHunk"

\* variant: the section test compares with the wrong variant of State
PaintBranch_wrong_section(st, syn, line) ==
    /\ ~starts_with(line, DiffPrefix)
    /\ ~starts_with(line, CommitPrefix)
    /\ ~starts_with(line, HunkPrefix)
    /\ st = "DiffMeta"
    /\ syn # None

\* variant: the section test is a separate "if" after the chain, so the
\* "@@" line that enters the hunk is painted too
PaintBranch_after_chain(st, syn, line) ==
    /\ ~starts_with(line, DiffPrefix)
    /\ ~starts_with(line, CommitPrefix)
    /\ (starts_with(line, HunkPrefix) \/ st = "DiffHunk")
    /\ syn # None

\* variant: the "commit" test is left out of the chain, so a hunk line
\* that starts with "commit" is painted like any other hunk line
PaintBranch_commit_in_hunk(st, syn, line) ==
    /\ ~starts_with(line, DiffPrefix)
    /\ ~starts_with(line, HunkPrefix)
    /\ st = "DiffHunk"
    /\ syn # None

\* whether the chain reaches the Some(syntax) arm that calls paint_line
PaintBranch(st, syn, line) ==
    /\ ~starts_with(line, DiffPrefix)
    /\ ~starts_with(line, CommitPrefix)
    /\ ~starts_with(line, HunkPrefix)
    /\ st = "DiffHunk"
    /\ syn # None

\* variant: the Some(syntax) arm forgets "did_emit_line = true"
DidEmit_never_set(prev, painted) == FALSE

\* variant: the flag is declared outside the loop and never reset
DidEmit_not_reset(prev, painted) == IF painted THEN TRUE ELSE prev

\* did_emit_line when control reaches "if !did_emit_line"
DidEmit(prev, painted) ==
    LET fresh == FALSE  \* line 91, whatever the last iteration left
    IN  IF painted THEN TRUE ELSE fresh

\* variant: the buffer is not cut
truncate_keeps_all(buf, n) == buf

\* String::truncate
truncate(buf, n) == SubSeq(buf, 1, n)

\* the writeln! calls one iteration makes, in order, when none of them fails
Writes(prev, st, syn, config, buf, raw_line) ==
    LET line == strip_ansi_codes(raw_line)
        painted == PaintBranch(st, syn, line)
    IN  (IF painted THEN <<paint_line(line, syn, config, buf)>> ELSE <<>>)
        \o (IF ~DidEmit(prev, painted) THEN <<raw_line>> ELSE <<>>)

\* variant: the error of the painted write is caught and the line falls
\* through to the raw writeln!, which succeeds
AfterFailedWrite_raw_fallback(painted, raw_line) ==
    IF painted THEN <<raw_line>> ELSE <<>>

\* what the iteration still writes once a writeln! has failed: "?" returns
\* the error at once (lines 105 and 114)
AfterFailedWrite(painted, raw_line) == <<>>

\* io::ErrorKind of the failures explored
ReadErrorKinds == {"InvalidData"}
WriteErrorKinds == {"BrokenPipe", "Other"}

\* variant: the Ok arm ends the process with a failure status
main_ok_fails(res) ==
    IF res = "Ok" THEN [msgs |-> <<>>, exit_code |-> 1]
    ELSE IF res = "BrokenPipe" THEN [msgs |-> <<>>, exit_code |-> 0]
    ELSE [msgs |-> <<"io_error">>, exit_code |-> 0]

\* variant: every Err is reported, BrokenPipe included
main_reports_broken_pipe(res) ==
    IF res = "Ok" THEN [msgs |-> <<>>, exit_code |-> 0]
    ELSE [msgs |-> <<"io_error">>, exit_code |-> 0]

\* what main() does with the value delta() returned
main(res) ==
    IF res = "Ok" THEN [msgs |-> <<>>, exit_code |-> 0]
    ELSE IF res = "BrokenPipe" THEN [msgs |-> <<>>, exit_code |-> 0]
    ELSE [msgs |-> <<"io_error">>, exit_code |-> 0]

----------------------------------------------------------------------------
(* Actions *)

Init ==
    /\ pc = "parse_args"
    /\ opt \in Opts
    /\ paint_config = NoConfig
    /\ state = "Unknown"
    /\ syntax = None
    /\ output = <<>>
    /\ did_emit_line = FALSE
    /\ input = <<>>
    /\ stdout = <<>>
    /\ stderr = <<>>
    /\ result = None
    /\ failed_op = None
    /\ exit_code = 0
    /\ lookups = <<>>

\* delta(), lines 76-78, when parse_args calls process::exit(1)
ParseArgsExit ==
    /\ pc = "parse_args"
    /\ parse_args(opt).exit
    /\ stderr' = Append(stderr, parse_args(opt).msg)
    /\ exit_code' = 1
    /\ pc' = "exited"
    /\ UNCHANGED <<opt, paint_config, state, syntax, output, did_emit_line,
                   input, stdout, result, failed_op, lookups>>

\* delta(), lines 76-86, when parse_args returns the configuration
ParseArgsOk ==
    /\ pc = "parse_args"
    /\ ~parse_args(opt).exit
    /\ opt' = parse_args(opt).opt
    /\ paint_config' = parse_args(opt).config
    /\ pc' = "loop"
    /\ UNCHANGED <<state, syntax, output, did_emit_line, input, stdout, stderr,
                   result, failed_op, exit_code, lookups>>

\* one iteration of the loop: the read and every write succeed
ProcessLineWithin(n) ==
    /\ pc = "loop"
    /\ Len(input) < n
    /\ \E raw_line \in Lines :
         LET line == strip_ansi_codes(raw_line)
             painted == PaintBranch(state, syntax, line)
         IN  /\ input' = Append(input, raw_line)
             /\ state' = NewState(state, line)
             /\ syntax' = NewSyntax(syntax, line)
             /\ lookups' = Append(lookups, Lookups(line))
             /\ stdout' = stdout \o Writes(did_emit_line, state, syntax, paint_config,
                                             output, raw_line)
             /\ output' = IF painted
                          THEN truncate(paint_line(line, syntax, paint_config, output), 0)
                          ELSE output
             /\ did_emit_line' = DidEmit(did_emit_line, painted)
    /\ UNCHANGED <<pc, opt, paint_config, stderr, result, failed_op, exit_code>>

\* one iteration of the loop: the read succeeds, the first writeln! fails,
\* "?" returns the error and main() matches on it
WriteErrorWithin(n) ==
    /\ pc = "loop"
    /\ Len(input) < n
    /\ \E raw_line \in Lines, kind \in WriteErrorKinds :
         LET line == strip_ansi_codes(raw_line)
             painted == PaintBranch(state, syntax, line)
         IN  /\ input' = Append(input, raw_line)
             /\ state' = NewState(state, line)
             /\ syntax' = NewSyntax(syntax, line)
             /\ lookups' = Append(lookups, Lookups(line))
             /\ output' = IF painted
                          THEN paint_line(line, syntax, paint_config, output)
                          ELSE output
             /\ result' = kind
             /\ stderr' = stderr \o main(kind).msgs
             /\ exit_code' = main(kind).exit_code
             /\ stdout' = stdout \o AfterFailedWrite(painted, raw_line)
    /\ did_emit_line' = FALSE
    /\ failed_op' = "write"
    /\ pc' = "exited"
    /\ UNCHANGED <<opt, paint_config>>

\* the iterator yields Err: "_line?" returns the error and main() matches on it
ReadErrorWithin(n) ==
    /\ pc = "loop"
    /\ Len(input) < n
    /\ \E kind \in ReadErrorKinds :
         /\ result' = kind
         /\ stderr' = stderr \o main(kind).msgs
         /\ exit_code' = main(kind).exit_code
    /\ failed_op' = "read"
    /\ pc' = "exited"
    /\ UNCHANGED <<opt, paint_config, state, syntax, output, did_emit_line,
                   input, stdout, lookups>>

\* the iterator is exhausted: delta() returns Ok(()) and main() returns
EndOfInput ==
    /\ pc = "loop"
    /\ result' = "Ok"
    /\ stderr' = stderr \o main("Ok").msgs
    /\ exit_code' = main("Ok").exit_code
    /\ pc' = "exited"
    /\ UNCHANGED <<opt, paint_config, state, syntax, output, did_emit_line,
                   input, stdout, failed_op, lookups>>

ProcessLine == ProcessLineWithin(MaxLines)
WriteError == WriteErrorWithin(MaxLines)
ReadError == ReadErrorWithin(MaxLines)

Next ==
    \/ ParseArgsExit
    \/ ParseArgsOk
    \/ ProcessLine
    \/ WriteError
    \/ ReadError
    \/ EndOfInput

Spec == Init /\ [][Next]_vars

\* the process is never suspended for ever: a blocking read of a finite
\* stream returns a line, an error or the end of the stream
LiveProcessLine == ProcessLineWithin(LiveMaxLines)
LiveWriteError == WriteErrorWithin(LiveMaxLines)
LiveReadError == ReadErrorWithin(LiveMaxLines)

LiveNext ==
    \/ ParseArgsExit
    \/ ParseArgsOk
    \/ LiveProcessLine
    \/ LiveWriteError
    \/ LiveReadError
    \/ EndOfInput

FairSpec == Init /\ [][LiveNext]_vars /\ WF_vars(LiveNext)

\* the same program started with any of the command lines of ArgsOpts
ArgsInit ==
    /\ pc = "parse_args"
    /\ opt \in ArgsOpts
    /\ paint_config = NoConfig
    /\ state = "Unknown"
    /\ syntax = None
    /\ output = <<>>
    /\ did_emit_line = FALSE
    /\ input = <<>>
    /\ stdout = <<>>
    /\ stderr = <<>>
    /\ result = None
    /\ failed_op = None
    /\ exit_code = 0
    /\ lookups = <<>>

ArgsProcessLine == ProcessLineWithin(ArgsMaxLines)
ArgsWriteError == WriteErrorWithin(ArgsMaxLines)
ArgsReadError == ReadErrorWithin(ArgsMaxLines)

ArgsNext ==
    \/ ParseArgsExit
    \/ ParseArgsOk
    \/ ArgsProcessLine
    \/ ArgsWriteError
    \/ ArgsReadError
    \/ EndOfInput

ArgsSpec == ArgsInit /\ [][ArgsNext]_vars

TypeOK ==
    /\ pc \in {"parse_args", "loop", "exited"}
    /\ state \in {"Commit", "DiffMeta", "DiffHunk", "Unknown"}
    /\ syntax \in Syntaxes \cup {None}
    /\ Len(input) <= MaxLines
    /\ exit_code \in {0, 1}
    /\ Len(lookups) = Len(input)

----------------------------------------------------------------------------
(* Vocabulary of the properties, computed from the history of the run *)

\* the stripped text and the resolution of every line stdin can deliver
Stripped == [raw \in Lines |-> strip_ansi_codes(raw)]

DiffLines == {raw \in Lines : starts_with(Stripped[raw], DiffPrefix)}
CommitLines == {raw \in Lines : starts_with(Stripped[raw], CommitPrefix)}
HunkLines == {raw \in Lines : starts_with(Stripped[raw], HunkPrefix)}

IsDiffLine(raw) == raw \in DiffLines
IsCommitLine(raw) == raw \in CommitLines
IsHunkLine(raw) == raw \in HunkLines
IsTrigger(raw) == IsDiffLine(raw) \/ IsCommitLine(raw) \/ IsHunkLine(raw)

ExtensionGrammar(extension) ==
    IF extension = None THEN None ELSE find_syntax_by_extension(extension)

\* the grammar a "diff --" line resolves to
Resolved ==
    [raw \in DiffLines |->
        ExtensionGrammar(get_file_extension_from_diff_line(Stripped[raw]))]

HeaderGrammar(raw) == Resolved[raw]

\* the painted form of a raw line under grammar g: the painter's output in an empty buffer
PaintedForm(raw, g) == paint_line(Stripped[raw], g, paint_config, <<>>)

\* a step of the loop that read a line
ReadsLine == Len(input') = Len(input) + 1
\* the line such a step read
NewLine == input'[Len(input')]
\* no read or write has failed
NoIoError == failed_op = None

----------------------------------------------------------------------------
(* C1: without an I/O error, N input lines give exactly N output lines,    *)
(* and the k-th output line is either the raw k-th input line or its       *)
(* painted form (one of the two, never an extra or a missing line).        *)
LineCountPreserved ==
    (pc # "parse_args" /\ NoIoError) =>
        /\ Len(stdout) = Len(input)
        /\ \A k \in 1..Len(stdout) :
              (stdout[k] = input[k])
                 # (\E g \in Syntaxes : stdout[k] = PaintedForm(input[k], g))

LineCountWitness ==
    /\ pc = "exited"
    /\ result = "Ok"
    /\ Len(input) >= 3
    /\ Len(stdout) = Len(input)
    /\ \E k \in 1..Len(stdout) : stdout[k] # input[k]
    /\ \E k \in 1..Len(stdout) : stdout[k] = input[k]

----------------------------------------------------------------------------
(* C2: in every step of the loop the painter runs only if the section is   *)
(* DiffHunk and the grammar handle is resolved; for every other line the   *)
(* buffer is untouched and what is written is the raw line, byte for byte. *)
PainterRan ==
    \/ output' # output
    \/ Len(stdout') > Len(stdout) /\ stdout'[Len(stdout')] # NewLine

PaintOnlyInResolvedHunk ==
    [][ReadsLine =>
          /\ PainterRan => (state = "DiffHunk" /\ syntax # None
                            /\ state' = "DiffHunk" /\ syntax' # None)
          /\ ~(state' = "DiffHunk" /\ syntax' # None) =>
                /\ output' = output
                /\ stdout' \in {stdout, Append(stdout, NewLine)}]_vars

\* an ANSI-coloured line passed through raw inside a hunk without grammar
PassthroughWitness ==
    /\ pc = "loop"
    /\ state = "DiffHunk"
    /\ syntax = None
    /\ Len(stdout) = Len(input)
    /\ Len(input) >= 3
    /\ ~IsTrigger(input[Len(input)])
    /\ ESC \in {input[Len(input)][i] : i \in 1..Len(input[Len(input)])}
    /\ stdout[Len(stdout)] = input[Len(input)]

----------------------------------------------------------------------------
(* C3 as stated: whenever the section after classification is DiffHunk and *)
(* the handle is resolved, the line is painted and the painter's output is *)
(* what is written, the "@@" line that entered the hunk included.          *)
PaintWheneverHunkAfterClassify ==
    [][(ReadsLine /\ failed_op' = None /\ state' = "DiffHunk" /\ syntax' # None) =>
          stdout' = Append(stdout, PaintedForm(NewLine, syntax'))]_vars

(* C3 as amended: the same for every line that does not itself start with  *)
(* "@@"; the "@@" line that moves the section to DiffHunk is written raw.   *)
(* When the write of the painted line fails the painter has still run: its  *)
(* output is in the buffer and nothing is written.                          *)
PaintWheneverHunkBody ==
    [][(ReadsLine /\ state' = "DiffHunk" /\ syntax' # None) =>
          IF failed_op' # None
          THEN /\ stdout' = stdout
               /\ IsHunkLine(NewLine) \/ output' = PaintedForm(NewLine, syntax')
          ELSE IF IsHunkLine(NewLine)
          THEN stdout' = Append(stdout, NewLine)
          ELSE stdout' = Append(stdout, PaintedForm(NewLine, syntax'))]_vars

\* a painted body line and the raw "@@" line before it
PaintHunkBodyWitness ==
    /\ NoIoError
    /\ Len(input) >= 3
    /\ state = "DiffHunk"
    /\ syntax # None
    /\ IsHunkLine(input[Len(input) - 1])
    /\ stdout[Len(input) - 1] = input[Len(input) - 1]
    /\ ~IsTrigger(input[Len(input)])
    /\ stdout[Len(input)] = PaintedForm(input[Len(input)], syntax)

----------------------------------------------------------------------------
(* C4: for a stream made of a "diff --" header that resolves to a grammar, *)
(* metadata lines without trigger prefix, an "@@" line and hunk body lines *)
(* without trigger prefix, the header, the metadata and the "@@" line are  *)
(* written raw and every body line is written as painter output.           *)
ScenarioHeader(inp) ==
    /\ Len(inp) >= 2
    /\ IsDiffLine(inp[1])
    /\ HeaderGrammar(inp[1]) # None

ScenarioShape(inp, j) ==
    /\ 1 < j
    /\ j <= Len(inp)
    /\ ScenarioHeader(inp)
    /\ IsHunkLine(inp[j])
    /\ \A k \in 2..Len(inp) : k # j => ~IsTrigger(inp[k])

ScenarioRendered ==
    (Len(stdout) = Len(input) /\ ScenarioHeader(input)) =>
        \A j \in 2..Len(input) :
            ScenarioShape(input, j) =>
                /\ \A k \in 1..j : stdout[k] = input[k]
                /\ \A k \in (j + 1)..Len(input) :
                      stdout[k] = PaintedForm(input[k], HeaderGrammar(input[1]))

\* header, one metadata line, "@@", at least one body line, all written
ScenarioWitness ==
    /\ Len(stdout) = Len(input)
    /\ Len(input) >= 4
    /\ ScenarioShape(input, 3)
    /\ stdout[4] # input[4]

----------------------------------------------------------------------------
(* C5: once the section is DiffHunk it is still DiffHunk after every line  *)
(* whose stripped text starts with neither "diff --" nor "commit".         *)
SectionStable ==
    [][(ReadsLine /\ state = "DiffHunk"
          /\ ~IsDiffLine(NewLine) /\ ~IsCommitLine(NewLine)) =>
          state' = "DiffHunk"]_vars

\* two lines without trigger prefix read after the "@@" line, still in the hunk
SectionStableWitness ==
    /\ Len(input) >= 3
    /\ IsHunkLine(input[Len(input) - 2])
    /\ ~IsTrigger(input[Len(input) - 1])
    /\ ~IsTrigger(input[Len(input)])
    /\ state = "DiffHunk"

----------------------------------------------------------------------------
(* C6: the grammar handle is the one resolved from the most recent line    *)
(* starting with "diff --" (none before the first), whatever "commit",     *)
(* "@@" and other lines came since, and every painted line is painted with *)
(* the handle of the most recent "diff --" line before it.                 *)

\* the handle resolved from the last "diff --" line among inp[1..n]
RECURSIVE LastHeaderGrammar(_, _)
LastHeaderGrammar(inp, n) ==
    IF n = 0 THEN None
    ELSE IF IsDiffLine(inp[n]) THEN HeaderGrammar(inp[n])
    ELSE LastHeaderGrammar(inp, n - 1)

GrammarSticky ==
    /\ syntax = LastHeaderGrammar(input, Len(input))
    /\ \A k \in 1..Len(stdout) :
          stdout[k] # input[k] =>
              stdout[k] = PaintedForm(input[k], LastHeaderGrammar(input, k - 1))

\* a painted line with two "@@" or "commit" lines since its header
GrammarStickyWitness ==
    /\ Len(stdout) >= 4
    /\ IsDiffLine(input[1])
    /\ IsHunkLine(input[2]) \/ IsCommitLine(input[2])
    /\ IsHunkLine(input[3])
    /\ stdout[4] = PaintedForm(input[4], HeaderGrammar(input[1]))

----------------------------------------------------------------------------
(* C7: a "diff --" line without extension or with an extension the catalog *)
(* does not know leaves no grammar handle, even after a header that had    *)
(* one, and from that line to the next "diff --" line every line is        *)
(* written raw, hunk lines after "@@" included.                            *)
UnresolvedHeaderAt(inp, k) ==
    /\ IsDiffLine(inp[k])
    /\ HeaderGrammar(inp[k]) = None

\* index of the last "diff --" line among inp[1..n], 0 if there is none
RECURSIVE LastHeaderIndex(_, _)
LastHeaderIndex(inp, n) ==
    IF n = 0 THEN 0
    ELSE IF IsDiffLine(inp[n]) THEN n
    ELSE LastHeaderIndex(inp, n - 1)

UnresolvedHeaderIndex(inp, k) == k # 0 /\ UnresolvedHeaderAt(inp, k)

\* line m lies between an unresolved header (included) and the next header
AfterUnresolvedHeader(inp, m) == UnresolvedHeaderIndex(inp, LastHeaderIndex(inp, m))

\* (each implication is written with its cheap side first)
UnresolvedHeaderPassthrough ==
    /\ (Len(input) > 0 /\ syntax # None) => ~AfterUnresolvedHeader(input, Len(input))
    /\ \A m \in 1..Len(stdout) :
          stdout[m] # input[m] => ~AfterUnresolvedHeader(input, m)

\* resolved header, unresolved header, "@@", body line written raw
UnresolvedHeaderWitness ==
    /\ Len(stdout) >= 4
    /\ IsDiffLine(input[1])
    /\ HeaderGrammar(input[1]) # None
    /\ UnresolvedHeaderAt(input, 2)
    /\ IsHunkLine(input[3])
    /\ ~IsTrigger(input[4])
    /\ state = "DiffHunk"
    /\ stdout[4] = input[4]

----------------------------------------------------------------------------
(* C8: an I/O failure other than a broken pipe on output, while reading or *)
(* writing, ends with an error message and a non-zero exit status.         *)
IoFailureExitsNonZero ==
    (/\ pc = "exited"
     /\ failed_op # None
     /\ ~(failed_op = "write" /\ result = "BrokenPipe")) =>
        /\ stderr # <<>>
        /\ exit_code # 0

----------------------------------------------------------------------------
(* C9: after a write failed with BrokenPipe no further line is read or     *)
(* written, nothing is printed on stderr and the exit status is 0.         *)
BrokenPipeOnWrite == failed_op = "write" /\ result = "BrokenPipe"

BrokenPipeSilent ==
    /\ [](BrokenPipeOnWrite =>
            /\ pc = "exited"
            /\ stderr = <<>>
            /\ exit_code = 0)
    /\ [][BrokenPipeOnWrite =>
            /\ input' = input
            /\ stdout' = stdout
            /\ state' = state
            /\ syntax' = syntax]_vars

BrokenPipeWitness ==
    /\ BrokenPipeOnWrite
    /\ pc = "exited"
    /\ Len(stdout) >= 1
    /\ Len(input) = Len(stdout) + 1

----------------------------------------------------------------------------
(* C10: with both --light and --dark, or with a theme name that is not in  *)
(* the catalog, the process reports the error and exits with a non-zero    *)
(* status before any line is read or written.                              *)
BadOptions(o) ==
    \/ o.light /\ o.dark
    \/ o.theme # None /\ o.theme \notin Themes

ConfigErrorFatal ==
    (BadOptions(opt) /\ pc # "parse_args") =>
        /\ pc = "exited"
        /\ exit_code # 0
        /\ stderr # <<>>
        /\ input = <<>>
        /\ stdout = <<>>

ConfigErrorWitness ==
    /\ pc = "exited"
    /\ opt.light
    /\ opt.dark
    /\ exit_code = 1
    /\ Len(stderr) = 1

----------------------------------------------------------------------------
(* C11: a --plus-color or --minus-color argument that is no colour does    *)
(* not abort the run: the configuration holds no override for that colour  *)
(* and the lines are processed.                                            *)
NoColorTexts == {Some(ColorWord), Some(ColorBadDigit)}

HasBadColor(o) == o.plus_color \in NoColorTexts \/ o.minus_color \in NoColorTexts

BadColorIgnored ==
    (pc # "parse_args" /\ ~BadOptions(opt) /\ HasBadColor(opt)) =>
        /\ opt.plus_color \in NoColorTexts => paint_config.plus_color = Absent
        /\ opt.minus_color \in NoColorTexts => paint_config.minus_color = Absent
        /\ stderr \in {<<>>, <<"io_error">>}
        /\ pc = "exited" => result # None
        /\ failed_op = None => Len(stdout) = Len(input)

\* a run with an unparsable colour that painted an added or removed line and ended
BadColorWitness ==
    /\ pc = "exited"
    /\ result = "Ok"
    /\ opt.plus_color = Some(ColorWord)
    /\ opt.minus_color = Some(ColorBadDigit)
    /\ Len(stdout) = 3
    /\ stdout[3] # input[3]

----------------------------------------------------------------------------
(* C12: after any prefix of the input the section is the one named by the  *)
(* most recent trigger line (DiffMeta for "diff --", Commit for "commit",  *)
(* DiffHunk for "@@"), and Unknown exactly when no trigger line has been   *)
(* read; the section never returns to Unknown.                             *)

\* the section named by the last trigger line among inp[1..n]
RECURSIVE SectionOf(_, _)
SectionOf(inp, n) ==
    IF n = 0 THEN "Unknown"
    ELSE IF IsDiffLine(inp[n]) THEN "DiffMeta"
    ELSE IF IsCommitLine(inp[n]) THEN "Commit"
    ELSE IF IsHunkLine(inp[n]) THEN "DiffHunk"
    ELSE SectionOf(inp, n - 1)

SectionFollowsLastTrigger ==
    /\ state = SectionOf(input, Len(input))
    /\ state = "Unknown" <=> (\A k \in 1..Len(input) : ~IsTrigger(input[k]))

\* a hunk entered from the Commit section, two lines after the "@@" line
SectionWitness ==
    /\ Len(input) >= 4
    /\ IsCommitLine(input[Len(input) - 3])
    /\ IsHunkLine(input[Len(input) - 2])
    /\ ~IsTrigger(input[Len(input) - 1])
    /\ ~IsTrigger(input[Len(input)])
    /\ state = "DiffHunk"

----------------------------------------------------------------------------
(* C13: classification and extension parsing look at the text without its  *)
(* colour codes, so a trigger prefix hidden behind colour codes in the raw *)
(* bytes still triggers; the painter is given the text without codes, and  *)
(* a line passed through is written raw, codes included.                   *)

\* the text of each line stdin can deliver, colour codes left out, written out
DiffPyPlain == <<"d", "i", "f", "f", " ", "-", "-", "g", "i", "t", " ", "a", "/", "y", ".", "p", "y", " ", "b", "/", "y", ".", "p", "y">>

PlainOf(raw) ==
    IF raw = AnsiDiffPy THEN DiffPyPlain
    ELSE IF raw = AnsiMinus THEN Minus
    ELSE raw

PaintedPlain(raw, g) == paint_line(PlainOf(raw), g, paint_config, <<>>)

ClassifiedOnPlainText ==
    [][ReadsLine =>
          /\ starts_with(PlainOf(NewLine), DiffPrefix) =>
                /\ state' = "DiffMeta"
                /\ syntax' = ExtensionGrammar(
                                 get_file_extension_from_diff_line(PlainOf(NewLine)))
          /\ starts_with(PlainOf(NewLine), CommitPrefix) => state' = "Commit"
          /\ starts_with(PlainOf(NewLine), HunkPrefix) => state' = "DiffHunk"
          /\ failed_op' = None =>
                \/ stdout' = Append(stdout, NewLine)
                \/ stdout' = Append(stdout, PaintedPlain(NewLine, syntax))
          /\ failed_op' # None =>
                output' \in {output, PaintedPlain(NewLine, syntax)}]_vars

\* a coloured header that resolved its grammar, then a coloured hunk line
\* painted from its plain text, then the same coloured line written raw
PlainTextWitness ==
    /\ Len(stdout) >= 4
    /\ input[1] = AnsiDiffPy
    /\ stdout[1] = AnsiDiffPy
    /\ IsHunkLine(input[2])
    /\ input[3] = AnsiMinus
    /\ stdout[3] = paint_line(Minus, "Python", paint_config, <<>>)
    /\ IsCommitLine(input[4]) \/ IsDiffLine(input[4])
    /\ state # "DiffHunk"

----------------------------------------------------------------------------
(* C14: a line read in a DiffHunk section with a resolved grammar whose    *)
(* stripped text starts with "commit" is written raw and moves the section *)
(* to Commit; every line after it is written raw until a line starting     *)
(* with "@@" comes, which restores DiffHunk; the grammar handle stays what  *)
(* it was before the "commit" line as long as none of these lines starts    *)
(* with "diff --".                                                          *)

\* line i starts with "commit" and was read inside a hunk with a grammar
CommitInHunkAt(inp, i) ==
    /\ IsCommitLine(inp[i])
    /\ SectionOf(inp, i - 1) = "DiffHunk"
    /\ LastHeaderGrammar(inp, i - 1) # None

NoHunkLineIn(inp, a, b) == \A k \in a..b : ~IsHunkLine(inp[k])
NoDiffLineIn(inp, a, b) == \A k \in a..b : ~IsDiffLine(inp[k])

\* what the claim says of the output and of the section
CommitInHunkRaw(i) ==
    /\ Len(stdout) >= i => stdout[i] = input[i]
    /\ i = Len(input) => state = "Commit"
    /\ \A j \in (i + 1)..Len(stdout) :
          NoHunkLineIn(input, i + 1, j) => stdout[j] = input[j]
    /\ (i < Len(input) /\ IsHunkLine(input[Len(input)])) => state = "DiffHunk"

\* the statement as written: the handle is unchanged on every line up to and
\* including the "@@" line that restores DiffHunk
CommitInHunkHandleKept ==
    \A i \in 1..Len(input) :
        CommitInHunkAt(input, i) =>
            /\ CommitInHunkRaw(i)
            /\ NoHunkLineIn(input, i + 1, Len(input) - 1) =>
                   syntax = LastHeaderGrammar(input, i - 1)

CommitInHunkMisclassified ==
    \A i \in 1..Len(input) :
        CommitInHunkAt(input, i) =>
            /\ CommitInHunkRaw(i)
            /\ NoDiffLineIn(input, i + 1, Len(input)) =>
                   syntax = LastHeaderGrammar(input, i - 1)

\* header with a grammar, "@@", a "commit" line, then a line that would have
\* been painted had the section still been DiffHunk
CommitInHunkWitness ==
    /\ Len(stdout) >= 4
    /\ CommitInHunkAt(input, 3)
    /\ ~IsTrigger(input[4])
    /\ stdout[3] = input[3]
    /\ stdout[4] = input[4]
    /\ state = "Commit"
    /\ syntax # None

----------------------------------------------------------------------------
(* C15: find_syntax_by_extension is called exactly once, with the          *)
(* extension found, for every line that starts with "diff --" and in which *)
(* the resolver finds an extension; it is not called for a "diff --" line  *)
(* without extension nor for any other line.                               *)

\* the extension the resolver finds in each "diff --" line
HeaderExtension ==
    [raw \in DiffLines |-> get_file_extension_from_diff_line(Stripped[raw])]

HasExtension(raw) == IsDiffLine(raw) /\ HeaderExtension[raw] # None

\* the statement as written: one call for every "diff --" line
LookupOncePerHeader ==
    /\ Len(lookups) = Len(input)
    /\ \A k \in 1..Len(lookups) :
          Len(lookups[k]) = IF IsDiffLine(input[k]) THEN 1 ELSE 0

LookupOncePerExtension ==
    /\ Len(lookups) = Len(input)
    /\ \A k \in 1..Len(lookups) :
          lookups[k] = IF HasExtension(input[k])
                       THEN <<HeaderExtension[input[k]]>>
                       ELSE <<>>

\* a header with a known extension, one with an unknown extension, one
\* without extension and a line that is no header
LookupWitness ==
    /\ Len(input) = 4
    /\ input[1] = DiffRs
    /\ input[2] = DiffUnk
    /\ input[3] = DiffBad
    /\ input[4] = Meta
    /\ lookups[1] = << <<"r", "s">> >>
    /\ Len(lookups[2]) = 1
    /\ lookups[3] = <<>>
    /\ lookups[4] = <<>>

----------------------------------------------------------------------------
(* C16: once parse_args has returned, on a finite input stream the driver  *)
(* eventually leaves the loop; when no read or write failed it has then    *)
(* written a line for every line read, delta() has returned Ok, nothing    *)
(* was written to stderr and the exit status is 0.                         *)
CleanEnd ==
    /\ pc = "exited"
    /\ failed_op = None =>
          /\ result = "Ok"
          /\ Len(stdout) = Len(input)
          /\ stderr = <<>>
          /\ exit_code = 0

EndsCleanly == (pc = "loop") ~> CleanEnd

\* a stream of three lines or more, one of them painted, read to its end
EndsCleanlyWitness ==
    /\ pc = "exited"
    /\ result = "Ok"
    /\ failed_op = None
    /\ Len(input) >= 3
    /\ Len(stdout) = Len(input)
    /\ \E k \in 1..Len(stdout) : stdout[k] # input[k]
    /\ exit_code = 0

----------------------------------------------------------------------------
(* C17: what is written for a line is a function of the section, the       *)
(* grammar handle, the render configuration (which the loop never changes) *)
(* and the line alone, and the section and handle after the line are a     *)
(* function of the section, the handle and the line; so two runs in the    *)
(* same section with the same handle write the same for the same lines.    *)

\* the line written for raw in section st with handle g under config
OutputOf(st, g, config, raw) ==
    IF st = "DiffHunk" /\ g # None /\ ~IsTrigger(raw)
    THEN paint_line(Stripped[raw], g, config, <<>>)
    ELSE raw

SectionAfter(st, raw) ==
    IF IsDiffLine(raw) THEN "DiffMeta"
    ELSE IF IsCommitLine(raw) THEN "Commit"
    ELSE IF IsHunkLine(raw) THEN "DiffHunk"
    ELSE st

HandleAfter(g, raw) == IF IsDiffLine(raw) THEN HeaderGrammar(raw) ELSE g

NoHistoryBeyondSectionAndHandle ==
    [][ReadsLine =>
          /\ paint_config' = paint_config
          /\ state' = SectionAfter(state, NewLine)
          /\ syntax' = HandleAfter(syntax, NewLine)
          /\ failed_op' = None =>
                stdout' = Append(stdout, OutputOf(state, syntax, paint_config, NewLine))]_vars

\* the same line read twice in one run, after different prefixes: written
\* raw in section Unknown, painted in a hunk
NoHistoryWitness ==
    /\ Len(stdout) >= 4
    /\ ~IsTrigger(input[1])
    /\ input[4] = input[1]
    /\ stdout[1] = input[1]
    /\ stdout[4] # input[4]
    /\ state = "DiffHunk"
    /\ did_emit_line

----------------------------------------------------------------------------
(* C18: when a read or write fails while handling the k-th line, stdout    *)
(* holds exactly the lines an error-free run writes for lines 1..k-1 (a    *)
(* line whose painted write failed is not written raw either), and nothing *)
(* is written after the failure.                                           *)

\* what an error-free run writes for line k of inp
ErrorFreeLine(inp, k) ==
    OutputOf(SectionOf(inp, k - 1), LastHeaderGrammar(inp, k - 1), paint_config, inp[k])

\* the line being handled when the failure occurred
FailedAt == IF failed_op = "write" THEN Len(input) ELSE Len(input) + 1

PrefixAtFailure ==
    failed_op # None =>
        /\ Len(stdout) = FailedAt - 1
        /\ \A k \in 1..Len(stdout) : stdout[k] = ErrorFreeLine(input, k)

OutputIsPrefixOnError ==
    /\ []PrefixAtFailure
    /\ [][failed_op # None => stdout' = stdout]_vars

\* the write of a painted line failed after a painted and two raw lines
PrefixWitness ==
    /\ failed_op = "write"
    /\ Len(input) = 4
    /\ Len(stdout) = 3
    /\ output # <<>>
    /\ stdout[3] # input[3]
    /\ stdout[2] = input[2]

----------------------------------------------------------------------------
(* C19: when light and dark are not both set (that is fatal whatever the   *)
(* theme), parse_args returns a configuration whose theme is the named     *)
(* theme if one is named and exists in the catalog, whichever flag is set, *)
(* and with no theme named "InspiredGitHub" when light is set or neither   *)
(* flag is set and "base16-mocha.dark" when dark is set.                   *)

\* the command line names no theme or one of the catalog
ThemeUsable(o) == o.theme = None \/ o.theme \in Themes

ThemeSelected(o) ==
    IF o.theme # None THEN o.theme
    ELSE IF o.light \/ ~o.dark THEN "InspiredGitHub"
    ELSE "base16-mocha.dark"

ThemeInForce(o) == pc' = "loop" /\ paint_config'.theme_name = ThemeSelected(o)

\* the statement as written: for every setting of the two flags
ThemeWhateverFlags ==
    [][(pc = "parse_args" /\ ThemeUsable(opt)) => ThemeInForce(opt)]_vars

ThemeSelection ==
    [][(pc = "parse_args" /\ ThemeUsable(opt) /\ ~(opt.light /\ opt.dark)) =>
           ThemeInForce(opt)]_vars

\* a named theme in force although the dark flag is set
ThemeWitness ==
    /\ pc = "loop"
    /\ opt.dark
    /\ opt.theme = "Solarized (dark)"
    /\ paint_config.theme_name = "Solarized (dark)"

----------------------------------------------------------------------------
(* C20: the output buffer is empty whenever the loop is about to handle a  *)
(* line, hence at every call of paint_line: it is empty at the start and   *)
(* after every painted line that was written, so every painted line on     *)
(* stdout is exactly the painter's rendering of its own line and carries   *)
(* nothing of an earlier painted line.                                     *)
BufferEmptyAtPaint ==
    /\ pc \in {"parse_args", "loop"} => output = <<>>
    /\ \A k \in 1..Len(stdout) :
          stdout[k] # input[k] =>
              stdout[k] = PaintedPlain(input[k], LastHeaderGrammar(input, k - 1))

\* two painted lines written one after the other, the loop still running
BufferWitness ==
    /\ pc = "loop"
    /\ Len(stdout) >= 4
    /\ stdout[3] # input[3]
    /\ stdout[4] # input[4]
    /\ did_emit_line
    /\ output = <<>>

====
